---- MODULE Spec2Model ----
(***************************************************************************)
(* Model of the item-matrix of the traceability plugin:                    *)
(*   mlx/directives/item_matrix_directive.py  (ItemMatrix, the directive)  *)
(*   mlx/traceable_base_node.py               (reference construction)     *)
(*                                                                         *)
(* Strings are sequences of tokens, so that regular-expression matching    *)
(* (re.match, anchored at the start) is a computation on the identifier.   *)
(* Docutils elements are sequences of child nodes; `x += None` appends     *)
(* nothing, `x += node` appends the node.                                  *)
(***************************************************************************)
EXTENDS Integers, Sequences, FiniteSets, TLC

VARIABLES
    collection,   \* the TraceableCollection handed to perform_replacement
    app,          \* the Sphinx application: config values and builder
    self,         \* the ItemMatrix node's options, set by ItemMatrixDirective.run
    pc,           \* position in perform_replacement
    loc,          \* locals of perform_replacement computed before the loops
    i,            \* number of rows generated so far (both loops)
    rows,         \* Rows(sorted, covered, uncovered)
    tbody,        \* children of the table body
    top_node,     \* children of the replacement node
    warnings,     \* warnings reported through report_warning
    refs          \* results of stand-alone make_internal_item_ref calls

vars == <<collection, app, self, pc, loc, i, rows, tbody, top_node, warnings, refs>>

----------------------------------------------------------------------------
(* Bounds of the model *)

MaxLinks == 2       \* internal relationships between items in a collection
MaxExtLinks == 2    \* external relationships in a collection
MaxCols == 2        \* number of target regexes of a matrix
MaxCalls == 2       \* stand-alone calls of make_internal_item_ref

----------------------------------------------------------------------------
(* Generic helpers *)

RECURSIVE Concat(_)
Concat(ss) == IF ss = <<>> THEN <<>> ELSE Head(ss) \o Concat(Tail(ss))

Range(s) == { s[k] : k \in 1..Len(s) }

SeqsUpTo(S, n) == UNION { [1..m -> S] : m \in 1..n }

\* the sub-sequence of `order` whose elements are in S
Ordered(order, S) == SelectSeq(order, LAMBDA x : x \in S)

\* first occurrences of the elements of s, in order (keys of a dict filled from s)
RECURSIVE Dedup(_)
Dedup(s) ==
    IF s = <<>> THEN <<>>
    ELSE LET r == Dedup(SubSeq(s, 1, Len(s) - 1))
             x == s[Len(s)]
         IN IF x \in Range(r) THEN r ELSE Append(r, x)

----------------------------------------------------------------------------
(* The universe the collections, options and configurations are drawn from *)

R1 == <<"R", "1">>
R2 == <<"R", "2">>
T1 == <<"T", "1">>
T2 == <<"T", "2">>
N1 == <<"N", "1">>

\* every item id of the model, in the collection's sort order
ItemOrder == <<N1, R1, R2, T1, T2>>

\* external targets (the text is split at ':' into fields), in sort order
X1 == <<"X">>
Y7 == <<"Y", "7">>
ExtTargetOrder == <<X1, Y7>>

trace == <<"trace">>
impl == <<"impl">>
ext_tool == <<"ext_", "tool">>

IntRelations == {trace, impl}
ExtRelations == {ext_tool}

\* document and caption an item is defined with
DocName(id) == IF id[1] = "R" THEN "req" ELSE IF id[1] = "T" THEN "test" ELSE "notes"
Caption(id) == IF id = R2 THEN <<"second">> ELSE <<>>
Status(id) == IF id = R1 THEN "draft" ELSE "approved"

\* a value for Python's None where a string or a list of nodes is expected
None == <<>>

----------------------------------------------------------------------------
(* re.match(regex, s): the regexes of the model are literal prefixes *)

Match(regex, s) ==
    /\ Len(regex) <= Len(s)
    /\ SubSeq(s, 1, Len(regex)) = regex

(* traceable_base_node.py: '^ext_.*' *)
REGEXP_EXTERNAL_RELATIONSHIP == <<"ext_">>

is_relation_external(relation) == Match(REGEXP_EXTERNAL_RELATIONSHIP, relation)

----------------------------------------------------------------------------
(* The TraceableCollection and its items, as perform_replacement queries    *)
(* them.  A collection is [items, links, relations]: items maps each known  *)
(* id to [docname, caption, placeholder, status]; links is a set of         *)
(* <<source id, relation, target>>; relations is iter_relations().          *)

HasItem(id) == id \in DOMAIN collection.items

get_item(id) == collection.items[id]

is_placeholder(item_info) == item_info.placeholder

\* TraceableItem.iter_targets(relation): the targets, sorted
iter_targets(source_id, relation) ==
    LET S == { l[3] : l \in { m \in collection.links : m[1] = source_id /\ m[2] = relation } }
    IN IF is_relation_external(relation) THEN Ordered(ExtTargetOrder, S)
       ELSE Ordered(ItemOrder, S)

attributes_match(id, attributes) ==
    \A a \in attributes : get_item(id).status = a

\* TraceableCollection.get_items(regex, attributes): sorted ids of the defined
\* items whose id matches the regex and whose attributes match
get_items(regex, attributes) ==
    SelectSeq(ItemOrder, LAMBDA id :
        /\ HasItem(id)
        /\ ~is_placeholder(get_item(id))
        /\ Match(regex, id)
        /\ attributes_match(id, attributes))

iter_relations == collection.relations

\* TraceableCollection.are_related(source_id, relations, target_id): both are
\* defined items and the source has the target through one of the relations
\* (an empty list of relations stands for all of them)
are_related(source_id, relations, target_id) ==
    /\ HasItem(source_id) /\ ~is_placeholder(get_item(source_id))
    /\ HasItem(target_id) /\ ~is_placeholder(get_item(target_id))
    /\ LET rels == IF relations = <<>> THEN iter_relations ELSE relations
       IN \E k \in 1..Len(rels) : <<source_id, rels[k], target_id>> \in collection.links

\* TraceableCollection.get_external_targets(regex, relation): a dict, here the
\* sequence of its (external target, item ids) entries in insertion order
get_external_targets(regex, relation) ==
    LET ids == get_items(regex, {})
        keys == Dedup(Concat([k \in 1..Len(ids) |-> iter_targets(ids[k], relation)]))
    IN [k \in 1..Len(keys) |->
          [ext_source |-> keys[k],
           item_ids |-> SelectSeq(ids, LAMBDA id : keys[k] \in Range(iter_targets(id, relation)))]]

----------------------------------------------------------------------------
(* traceable_base_node.py *)

\* app.builder.get_relative_uri(from, to); NoUri is raised when app.no_uri
get_relative_uri(from, to) == <<from, "..", to>>

\* _get_caption_info: <<caption, caption_on_hover>>
get_caption_info(item_info, show_caption) ==
    IF item_info.caption # <<>>
    THEN IF show_caption THEN << <<" : ">> \o item_info.caption, None >>
         ELSE << <<>>, item_info.caption >>
    ELSE << <<>>, None >>

\* has_warned_about_undefined: the warnings it reports
has_warned_about_undefined(item_id, item_info) ==
    IF is_placeholder(item_info)
    THEN << [msg |-> "cannot link to, item is not defined", item |-> item_id,
             document |-> self.document, line |-> self.line] >>
    ELSE <<>>

\* a paragraph holding one child: a Text node or a reference node
Paragraph(child, text, refuri, refdocname, hover) ==
    [node |-> "paragraph", child |-> child, text |-> text, refuri |-> refuri,
     refdocname |-> refdocname, hover |-> hover]

\* the reference a paragraph of make_internal_item_ref carries
InternalReference(item_id, item_info, notification_item_id, show_caption) ==
    LET cap == get_caption_info(item_info, show_caption)
        linked_id == IF notification_item_id = None THEN item_id ELSE notification_item_id
        docname == get_item(linked_id).docname
        hover == IF cap[2] # None /\ app.builder # "latex" THEN cap[2] ELSE None
    IN IF app.no_uri
       THEN Paragraph("reference", item_id \o cap[1], None, "", hover)
       ELSE Paragraph("reference", item_id \o cap[1],
                      get_relative_uri(self.document, docname) \o <<"#">> \o linked_id,
                      docname, hover)

\* faulty variant: the placeholder check is missing, every item is linked
make_internal_item_ref_unchecked(item_id, show_caption) ==
    [p_node |-> InternalReference(item_id, get_item(item_id), None, show_caption),
     warned |-> <<>>]

\* make_internal_item_ref(app, item_id, show_caption): [p_node, warned]
make_internal_item_ref(item_id, show_caption) ==
    LET item_info == get_item(item_id)
        notification_item_id == app.notifications
        no_notification == notification_item_id = None \/ ~HasItem(notification_item_id)
    IN IF is_placeholder(item_info)
       THEN IF no_notification
            THEN [p_node |-> Paragraph("Text", item_id \o <<" not defined, broken link">>,
                                       None, "", None),
                  warned |-> has_warned_about_undefined(item_id, item_info)]
            ELSE [p_node |-> InternalReference(item_id, item_info, notification_item_id,
                                               show_caption),
                  warned |-> <<>>]
       ELSE [p_node |-> InternalReference(item_id, item_info, None, show_caption),
             warned |-> <<>>]

EXTERNAL_LINK_FIELDNAME(cnt) == <<"field1", "field2">>[cnt]

\* url.replace('field' + str(cnt), tgt_str) over the tokens of the url
RECURSIVE ReplaceFields(_, _, _)
ReplaceFields(url, tgt_strs, cnt) ==
    IF cnt > Len(tgt_strs) THEN url
    ELSE ReplaceFields([k \in 1..Len(url) |->
                           IF url[k] = EXTERNAL_LINK_FIELDNAME(cnt) THEN tgt_strs[cnt]
                           ELSE url[k]],
                       tgt_strs, cnt + 1)

\* make_external_item_ref(app, target_text, relationship): the nodes that
\* `entry += result` appends, none when the result is None
make_external_item_ref(target_text, relationship) ==
    IF relationship \notin DOMAIN app.external_relationship_to_url
    THEN <<>>
    ELSE << Paragraph("extreference", target_text,
                      ReplaceFields(app.external_relationship_to_url[relationship],
                                    target_text, 1),
                      "", None) >>

----------------------------------------------------------------------------
(* item_matrix_directive.py: ItemMatrixDirective *)

\* group(argument): directives.choice(argument, ('top', 'bottom'))
group(argument) == argument \in {"top", "bottom"}

\* the values of the 'group' option a node can carry: unset, or accepted by group
GroupOptions == {""} \cup { g \in {"top", "bottom", "middle"} : group(g) }

SourceOptions ==
    { [source |-> <<>>, attributes |-> {}],
      [source |-> <<"R">>, attributes |-> {"approved"}],
      [source |-> <<"Q">>, attributes |-> {}] }

TargetRegexes == { <<>>, <<"T">> }
TargetOptions == SeqsUpTo(TargetRegexes, MaxCols)

TypeOptions == { <<>>, <<trace>>, <<ext_tool>>, <<trace, ext_tool>> }

DefaultOptions ==
    [document |-> "matrix", line |-> 1, title |-> "Traceability matrix of items",
     source |-> <<>>, attributes |-> {}, target |-> << <<>> >>, targettitle |-> <<"Target">>,
     sourcetitle |-> "Source", type |-> <<>>, group |-> "", stats |-> FALSE]

\* ItemMatrixDirective.run: the node with its options, and the warning about
\* the number of target titles
run ==
    /\ pc = "directive"
    /\ \E src \in SourceOptions, tgt \in TargetOptions, type \in TypeOptions,
          grp \in GroupOptions, stats \in BOOLEAN :
          /\ self' = [DefaultOptions EXCEPT !.source = src.source,
                                            !.attributes = src.attributes,
                                            !.target = tgt, !.type = type,
                                            !.group = grp, !.stats = stats]
          /\ warnings' = IF Len(tgt) > 1 /\ Len(tgt) # Len(DefaultOptions.targettitle)
                         THEN Append(warnings,
                                     [msg |-> "same number of target and target-title",
                                      item |-> None, document |-> DefaultOptions.document,
                                      line |-> DefaultOptions.line])
                         ELSE warnings
    /\ pc' = "start"
    /\ UNCHANGED <<collection, app, loc, i, rows, tbody, top_node, refs>>

----------------------------------------------------------------------------
(* item_matrix_directive.py: ItemMatrix.perform_replacement *)

Max(a, b) == IF a >= b THEN a ELSE b

\* the relationships considered for internal targets (lines 60-66)
Relationships(type) ==
    IF type = <<>>
    THEN SelectSeq(iter_relations, LAMBDA rel : ~is_relation_external(rel))
    ELSE type

\* faulty variant: without 'type', the external relations of the collection
ExternalRelationships_all(type) ==
    SelectSeq(IF type = <<>> THEN iter_relations ELSE type,
              LAMBDA rel : is_relation_external(rel))

\* the relationships whose external targets are shown (lines 60-66)
ExternalRelationships(type) ==
    IF type = <<>> THEN <<>>
    ELSE SelectSeq(type, LAMBDA rel : is_relation_external(rel))

\* ext_relations_to_target_map (lines 68-71) as the sequence of its
\* (relation, external source, item ids) entries in iteration order
ExtRelationsToTargetMap(external_relationships) ==
    LET rels == Dedup(external_relationships)
    IN Concat([k \in 1..Len(rels) |->
                 LET m == get_external_targets(self.source, rels[k])
                 IN [n \in 1..Len(m) |->
                       [ext_rel |-> rels[k], ext_source |-> m[n].ext_source,
                        item_ids |-> m[n].item_ids]]])

\* lines 33-74: everything computed before the first loop
Setup ==
    /\ pc = "start"
    /\ LET external_relationships == ExternalRelationships(self.type)
       IN loc' = [number_of_columns |-> Max(2, Len(self.target) + 1),
                  source_ids |-> get_items(self.source, self.attributes),
                  targets_with_ids |-> [k \in 1..Len(self.target) |->
                                          get_items(self.target[k], {})],
                  relationships |-> Relationships(self.type),
                  external_relationships |-> external_relationships,
                  ext_map |-> ExtRelationsToTargetMap(external_relationships)]
    /\ top_node' = << [node |-> "admonition", text |-> <<self.title>>] >>
    /\ rows' = [sorted |-> <<>>, covered |-> <<>>, uncovered |-> <<>>]
    /\ tbody' = <<>>
    /\ i' = 0
    /\ pc' = "rows"
    /\ UNCHANGED <<collection, app, self, warnings, refs>>

\* _store_row(rows, left, rights, covered); a row is the node row with its
\* children left and rights, `id` stands for the identity of the node object
store_row(rws, left, rights, covered) ==
    LET row == [id |-> Len(rws.sorted) + 1, left |-> left, rights |-> rights]
    IN [sorted |-> Append(rws.sorted, row),
        covered |-> IF covered THEN Append(rws.covered, row) ELSE rws.covered,
        uncovered |-> IF covered THEN rws.uncovered ELSE Append(rws.uncovered, row)]

\* lines 81-86: the external targets of a source item, as (target, relationship)
ExternalHits(source_id) ==
    LET rels == loc.external_relationships
    IN Concat([k \in 1..Len(rels) |->
                 LET tgts == iter_targets(source_id, rels[k])
                 IN [n \in 1..Len(tgts) |-> [target |-> tgts[n], rel |-> rels[k]]]])

\* faulty variant: the relationships are not passed on (any relation counts)
InternalHits_any_relation(source_id, idx) ==
    SelectSeq(loc.targets_with_ids[idx],
              LAMBDA target_id : are_related(source_id, <<>>, target_id))

\* lines 87-91: the items of target column idx that are related to the source
InternalHits(source_id, idx) ==
    SelectSeq(loc.targets_with_ids[idx],
              LAMBDA target_id : are_related(source_id, loc.relationships, target_id))

\* faulty variant: the linked items are not matched against the target regex
ExternalRowHits_unfiltered(item_ids, idx) == item_ids

\* lines 100-104: the linked items of an external source shown in column idx
ExternalRowHits(item_ids, idx) ==
    SelectSeq(item_ids, LAMBDA target_id : Match(self.target[idx], target_id))

\* the calls of make_internal_item_ref for the cells of one row, column by column
ColumnRefs(hits) ==
    [idx \in 1..Len(hits) |->
        [k \in 1..Len(hits[idx]) |-> make_internal_item_ref(hits[idx][k], TRUE)]]

PNodes(results) == [k \in 1..Len(results) |-> results[k].p_node]
Warned(results) == Concat([k \in 1..Len(results) |-> results[k].warned])

\* the right entries: in every column the shared nodes, then the column's own
Rights(shared, colrefs) ==
    [c \in 1..(loc.number_of_columns - 1) |->
        shared \o (IF c <= Len(colrefs) THEN PNodes(colrefs[c]) ELSE <<>>)]

\* lines 75-92: one iteration of the loop over the source items
SourceRow ==
    /\ pc = "rows"
    /\ i < Len(loc.source_ids)
    /\ LET source_id == loc.source_ids[i + 1]
           left == make_internal_item_ref(source_id, TRUE)
           ext_hits == ExternalHits(source_id)
           ext_item_refs == Concat([k \in 1..Len(ext_hits) |->
                                make_external_item_ref(ext_hits[k].target, ext_hits[k].rel)])
           hits == [idx \in 1..Len(loc.targets_with_ids) |-> InternalHits(source_id, idx)]
           colrefs == ColumnRefs(hits)
           covered == ext_hits # <<>> \/ \E idx \in 1..Len(hits) : hits[idx] # <<>>
       IN /\ rows' = store_row(rows, <<left.p_node>>, Rights(ext_item_refs, colrefs), covered)
          /\ warnings' = warnings \o left.warned
                           \o Concat([idx \in 1..Len(colrefs) |-> Warned(colrefs[idx])])
    /\ i' = i + 1
    /\ UNCHANGED <<collection, app, self, pc, loc, tbody, top_node, refs>>

\* lines 94-106: one iteration of the loops over the external sources
ExternalRow ==
    /\ pc = "rows"
    /\ i >= Len(loc.source_ids)
    /\ i < Len(loc.source_ids) + Len(loc.ext_map)
    /\ LET e == loc.ext_map[i - Len(loc.source_ids) + 1]
           left == make_external_item_ref(e.ext_source, e.ext_rel)
           hits == [idx \in 1..Len(self.target) |-> ExternalRowHits(e.item_ids, idx)]
           colrefs == ColumnRefs(hits)
           covered == \E idx \in 1..Len(hits) : hits[idx] # <<>>
       IN /\ rows' = store_row(rows, left, Rights(<<>>, colrefs), covered)
          /\ warnings' = warnings \o Concat([idx \in 1..Len(colrefs) |-> Warned(colrefs[idx])])
    /\ i' = i + 1
    /\ UNCHANGED <<collection, app, self, pc, loc, tbody, top_node, refs>>

\* faulty variant: 'top' and 'bottom' are swapped
Body_swapped(grp, rws) ==
    IF grp = "" THEN rws.sorted
    ELSE IF grp = "top" THEN rws.covered \o rws.uncovered
    ELSE IF grp = "bottom" THEN rws.uncovered \o rws.covered
    ELSE <<>>

\* lines 109-116: the table body
Body(grp, rws) ==
    IF grp = "" THEN rws.sorted
    ELSE IF grp = "top" THEN rws.uncovered \o rws.covered
    ELSE IF grp = "bottom" THEN rws.covered \o rws.uncovered
    ELSE <<>>

FillBody ==
    /\ pc = "rows"
    /\ i >= Len(loc.source_ids) + Len(loc.ext_map)
    /\ tbody' = tbody \o Body(self.group, rows)
    /\ pc' = "stats"
    /\ UNCHANGED <<collection, app, self, loc, i, rows, top_node, warnings, refs>>

\* faulty variant: the percentage is rounded to the nearest integer
Percentage_rounded(count_covered, count_total) ==
    IF count_total = 0 THEN 0
    ELSE (100 * count_covered + count_total \div 2) \div count_total

\* lines 118-123: int(100 * count_covered / count_total), 0 on ZeroDivisionError
Percentage(count_covered, count_total) ==
    IF count_total = 0 THEN 0 ELSE (100 * count_covered) \div count_total

\* lines 124-126
Disp(count_covered, count_total) ==
    <<"Statistics: ", count_covered, " out of ", count_total, " covered: ",
      Percentage(count_covered, count_total), "%">>

\* lines 118-134: the statistics paragraph and the table
Statistics ==
    /\ pc = "stats"
    /\ LET count_total == Len(rows.sorted)
           count_covered == Len(rows.covered)
           disp == Disp(count_covered, count_total)
           with_stats == IF self.stats
                         THEN Append(top_node, [node |-> "paragraph", text |-> disp])
                         ELSE top_node
       IN top_node' = Append(with_stats, [node |-> "table", text |-> <<>>])
    /\ pc' = "done"
    /\ UNCHANGED <<collection, app, self, loc, i, rows, tbody, warnings, refs>>

----------------------------------------------------------------------------
(* The collections and configurations a matrix is generated for *)

DefinedItem(id) ==
    [docname |-> DocName(id), caption |-> Caption(id), placeholder |-> FALSE,
     status |-> Status(id)]

PlaceholderItem == [docname |-> "", caption |-> <<>>, placeholder |-> TRUE, status |-> ""]

MatrixItems == {R1, R2, T1}

IntLinkCandidates ==
    { <<R1, trace, T1>>, <<R2, trace, T1>>, <<R2, impl, R1>> }

ExtLinkCandidates ==
    { <<R1, ext_tool, X1>>, <<T1, ext_tool, X1>>, <<R2, ext_tool, Y7>> }

SubsetsUpTo(S, n) == { L \in SUBSET S : Cardinality(L) <= n }

Collections ==
    { [items |-> [id \in MatrixItems |-> DefinedItem(id)],
       links |-> int \cup ext,
       relations |-> <<trace, impl, ext_tool>>] :
      int \in SubsetsUpTo(IntLinkCandidates, MaxLinks),
      ext \in SubsetsUpTo(ExtLinkCandidates, MaxExtLinks) }

UrlConfigs == { <<>>, ext_tool :> <<"http://tool/", "field1", "/", "field2">> }

NoLocals ==
    [number_of_columns |-> 0, source_ids |-> <<>>, targets_with_ids |-> <<>>,
     relationships |-> <<>>, external_relationships |-> <<>>, ext_map |-> <<>>]

Init ==
    /\ collection \in Collections
    /\ \E url \in UrlConfigs :
          app = [external_relationship_to_url |-> url, notifications |-> None,
                 builder |-> "html", no_uri |-> FALSE]
    /\ self = DefaultOptions
    /\ pc = "directive"
    /\ loc = NoLocals
    /\ i = 0
    /\ rows = [sorted |-> <<>>, covered |-> <<>>, uncovered |-> <<>>]
    /\ tbody = <<>>
    /\ top_node = <<>>
    /\ warnings = <<>>
    /\ refs = <<>>

Next ==
    \/ run
    \/ Setup
    \/ SourceRow
    \/ ExternalRow
    \/ FillBody
    \/ Statistics

Spec == Init /\ [][Next]_vars

----------------------------------------------------------------------------
(* Stand-alone calls of make_internal_item_ref, on defined items and on    *)
(* placeholders, with and without a notification item, under a builder     *)
(* that determines every URI or raises NoUri                               *)

RefCollections ==
    { [items |-> [id \in {R1, R2, T2} \cup extra |->
                     IF id = T2 THEN PlaceholderItem ELSE DefinedItem(id)],
       links |-> { <<R1, trace, T2>> },
       relations |-> <<trace, impl, ext_tool>>] : extra \in { {}, {N1} } }

Builders ==
    { [builder |-> "html", no_uri |-> FALSE],
      [builder |-> "latex", no_uri |-> FALSE],
      [builder |-> "latex", no_uri |-> TRUE] }

InitRef ==
    /\ collection \in RefCollections
    /\ \E b \in Builders, n \in {None, N1} :
          app = [external_relationship_to_url |-> <<>>, notifications |-> n,
                 builder |-> b.builder, no_uri |-> b.no_uri]
    /\ self = DefaultOptions
    /\ pc = "ref"
    /\ loc = NoLocals
    /\ i = 0
    /\ rows = [sorted |-> <<>>, covered |-> <<>>, uncovered |-> <<>>]
    /\ tbody = <<>>
    /\ top_node = <<>>
    /\ warnings = <<>>
    /\ refs = <<>>

\* one call make_internal_item_ref(app, item_id, show_caption)
MakeInternalItemRef ==
    /\ pc = "ref"
    /\ Len(refs) < MaxCalls
    /\ \E item_id \in DOMAIN collection.items, show_caption \in BOOLEAN :
          LET r == make_internal_item_ref(item_id, show_caption)
          IN /\ refs' = Append(refs, [item_id |-> item_id, show_caption |-> show_caption,
                                      p_node |-> r.p_node, warned |-> r.warned])
             /\ warnings' = warnings \o r.warned
    /\ UNCHANGED <<collection, app, self, pc, loc, i, rows, tbody, top_node>>

NextRef == MakeInternalItemRef

SpecRef == InitRef /\ [][NextRef]_vars

----------------------------------------------------------------------------
(* Vocabulary of the properties *)

AllIds == Range(ItemOrder)

\* the paragraph shows the internal item id (its text starts with the id)
RefersTo(p, id) == p.child \in {"reference", "Text"} /\ Match(id, p.text)

IsInternalRef(p) == p.child \in {"reference", "Text"}
IsExternalRef(p) == p.child = "extreference"

StoredCovered(row) == row \in Range(rows.covered)
StoredUncovered(row) == row \in Range(rows.uncovered)

\* rows are generated for the source items first, then for the external sources
IsSourceRow(row) == row.id <= Len(loc.source_ids)
SourceOf(row) == loc.source_ids[row.id]
ExtSourceOf(row) == loc.ext_map[row.id - Len(loc.source_ids)]

\* the external relationships listed in 'type'
RequestedExternal == { rel \in Range(self.type) : Match(<<"ext_">>, rel) }

\* the external targets a source item has through the requested relationships
ExternalTargetsOf(source_id) ==
    { <<l[2], l[3]>> : l \in { m \in collection.links :
                                 m[1] = source_id /\ m[2] \in RequestedExternal } }

\* the (relationship, external source) pairs external-source rows are made for
ExpectedExtSources ==
    UNION { ExternalTargetsOf(id) : id \in Range(get_items(self.source, {})) }

\* the cells of a row: the left entry and the right entries
Cells(row) == <<row.left>> \o row.rights

Generating == pc \in {"rows", "stats", "done"}

----------------------------------------------------------------------------
(* C1: a row's coverage flag matches whether a configured relationship was  *)
(* found.  Every generated row is stored as covered or as uncovered, never  *)
(* both; a source-item row is covered iff the source has a target through   *)
(* an external relationship of 'type', or some item matching a target regex *)
(* is related to it through the considered relationships; an external-      *)
(* source row is covered iff one of its linked item ids matches a target    *)
(* regex.                                                                   *)

HasRelatedTarget(source_id) ==
    \E idx \in 1..Len(self.target) :
        \E id \in Range(get_items(self.target[idx], {})) :
            are_related(source_id, loc.relationships, id)

LinkedItemMatches(item_ids) ==
    \E idx \in 1..Len(self.target) :
        \E id \in Range(item_ids) : Match(self.target[idx], id)

C1_CoverageFlag ==
    \A k \in 1..Len(rows.sorted) :
        LET row == rows.sorted[k]
        IN /\ StoredCovered(row) # StoredUncovered(row)
           /\ IF IsSourceRow(row)
              THEN StoredCovered(row) <=>
                      (ExternalTargetsOf(SourceOf(row)) # {} \/ HasRelatedTarget(SourceOf(row)))
              ELSE StoredCovered(row) <=> LinkedItemMatches(ExtSourceOf(row).item_ids)

\* a finished matrix with a source row covered only through an internal
\* relationship, an uncovered source row whose only link is through a
\* relationship not in 'type', and a covered external-source row
C1_Witness ==
    /\ pc = "done"
    /\ self.type = <<trace, ext_tool>>
    /\ \E r \in Range(rows.sorted) :
          IsSourceRow(r) /\ StoredCovered(r) /\ ExternalTargetsOf(SourceOf(r)) = {}
    /\ \E r \in Range(rows.sorted) :
          /\ IsSourceRow(r) /\ StoredUncovered(r)
          /\ \E l \in collection.links : l[1] = SourceOf(r) /\ l[2] = impl
    /\ \E r \in Range(rows.sorted) : ~IsSourceRow(r) /\ StoredCovered(r)

----------------------------------------------------------------------------
(* C2: only source and target items matching their regexp are in the        *)
(* matrix.  The internal item of a left cell is an item of                  *)
(* get_items(source, filter-attributes); an internal item reference in      *)
(* target column idx is an item id matching target regex idx and, in a      *)
(* source-item row, related to the row's source through the considered      *)
(* relationships.                                                           *)

C2_OnlyMatchingItems ==
    \A k \in 1..Len(rows.sorted) :
        LET row == rows.sorted[k]
        IN /\ \A n \in 1..Len(row.left) :
                 IsInternalRef(row.left[n]) =>
                    \E id \in Range(get_items(self.source, self.attributes)) :
                        RefersTo(row.left[n], id)
           /\ \A idx \in 1..Len(row.rights) :
                 \A n \in 1..Len(row.rights[idx]) :
                    LET p == row.rights[idx][n]
                    IN IsInternalRef(p) =>
                          /\ idx <= Len(self.target)
                          /\ \E id \in AllIds : RefersTo(p, id)
                          /\ \A id \in AllIds :
                                RefersTo(p, id) =>
                                   /\ Match(self.target[idx], id)
                                   /\ IsSourceRow(row) =>
                                         are_related(SourceOf(row), loc.relationships, id)

\* a finished matrix where the source regex leaves items out, a target regex
\* leaves a linked item out of an external-source row, and an internal
\* target is shown
C2_Witness ==
    /\ pc = "done"
    /\ self.source = <<"R">>
    /\ \E r \in Range(rows.sorted) :
          /\ ~IsSourceRow(r)
          /\ \E id \in Range(ExtSourceOf(r).item_ids) : ~LinkedItemMatches(<<id>>)
    /\ \E r \in Range(rows.sorted) :
          \E idx \in 1..Len(r.rights) :
             \E n \in 1..Len(r.rights[idx]) : RefersTo(r.rights[idx][n], T1)

----------------------------------------------------------------------------
(* C3: 'group' determines the order of the body rows.  'top': the uncovered *)
(* rows, then the covered rows; 'bottom': the covered rows, then the        *)
(* uncovered rows; no group: generation order (source items in get_items    *)
(* order, then the external-source rows).  The body holds every generated   *)
(* row exactly once and each group keeps its generation order.              *)

RowsWhere(covered) ==
    SelectSeq(rows.sorted, LAMBDA row : StoredCovered(row) = covered)

GenerationOrder ==
    LET src == get_items(self.source, self.attributes)
    IN /\ Len(rows.sorted) = Len(src) + Cardinality(ExpectedExtSources)
       /\ \A k \in 1..Len(rows.sorted) :
             /\ rows.sorted[k].id = k
             /\ IF k <= Len(src)
                THEN /\ Len(rows.sorted[k].left) = 1
                     /\ RefersTo(rows.sorted[k].left[1], src[k])
                ELSE \A n \in 1..Len(rows.sorted[k].left) :
                        IsExternalRef(rows.sorted[k].left[n])

C3_GroupOrder ==
    pc \in {"stats", "done"} =>
       /\ GenerationOrder
       /\ self.group \in {"", "top", "bottom"}
       /\ self.group = "" => tbody = rows.sorted
       /\ self.group = "top" => tbody = RowsWhere(FALSE) \o RowsWhere(TRUE)
       /\ self.group = "bottom" => tbody = RowsWhere(TRUE) \o RowsWhere(FALSE)
       /\ \A row \in Range(rows.sorted) :
             Cardinality({ k \in 1..Len(tbody) : tbody[k] = row }) = 1
       /\ Len(tbody) = Len(rows.sorted)

\* grouped at the top, with two uncovered rows and two covered rows that are
\* interleaved in generation order, one of them an external-source row
C3_Witness ==
    /\ pc = "done"
    /\ self.group = "top"
    /\ Len(RowsWhere(TRUE)) >= 2
    /\ Len(RowsWhere(FALSE)) >= 2
    /\ RowsWhere(TRUE)[1].id < RowsWhere(FALSE)[1].id
    /\ RowsWhere(FALSE)[1].id < RowsWhere(TRUE)[2].id
    /\ \E r \in Range(rows.sorted) : ~IsSourceRow(r)

----------------------------------------------------------------------------
(* C4: external references are shown only if requested in 'type'.  With an  *)
(* empty 'type' the considered relationships are the relations of the       *)
(* collection that are not external, no cell holds an external reference    *)
(* and no external-source row is generated; otherwise every external        *)
(* reference is for a relationship of 'type' whose name starts with 'ext_'. *)

NonExternalRelations ==
    SelectSeq(collection.relations, LAMBDA rel : ~Match(<<"ext_">>, rel))

ExternalRefsOf(row) ==
    { p \in UNION { Range(Cells(row)[c]) : c \in 1..Len(Cells(row)) } : IsExternalRef(p) }

C4_ExternalOnlyOnRequest ==
    Generating =>
       /\ self.type = <<>> =>
             /\ loc.relationships = NonExternalRelations
             /\ \A row \in Range(rows.sorted) :
                   IsSourceRow(row) /\ ExternalRefsOf(row) = {}
       /\ self.type # <<>> =>
             \A row \in Range(rows.sorted) :
                /\ \A p \in ExternalRefsOf(row) :
                      \E rel \in RequestedExternal :
                         \E l \in collection.links : l[2] = rel /\ l[3] = p.text
                /\ ~IsSourceRow(row) => ExtSourceOf(row).ext_rel \in RequestedExternal
       /\ Len(rows.sorted) <= Len(loc.source_ids) + Cardinality(ExpectedExtSources)

\* a finished matrix without 'type' over a collection with external
\* relationships whose URL is configured
C4_Witness ==
    /\ pc = "done"
    /\ self.type = <<>>
    /\ self.source = <<>>
    /\ ext_tool \in DOMAIN app.external_relationship_to_url
    /\ \E l \in collection.links : l[2] = ext_tool
    /\ Len(rows.sorted) = 3

----------------------------------------------------------------------------
(* C5: no target filtering is done on external references.  In a source-    *)
(* item row every external target the source has through an external        *)
(* relationship of 'type' is referenced in every target column, and the row *)
(* is stored as covered, whatever the target regexes are.                   *)

C5_WhereUrlConfigured ==
    \A row \in Range(rows.sorted) :
        IsSourceRow(row) =>
           \A t \in ExternalTargetsOf(SourceOf(row)) :
              /\ StoredCovered(row)
              /\ t[1] \in DOMAIN app.external_relationship_to_url =>
                    \A c \in 1..Len(row.rights) :
                       \E n \in 1..Len(row.rights[c]) :
                          IsExternalRef(row.rights[c][n]) /\ row.rights[c][n].text = t[2]

----------------------------------------------------------------------------
(* C6: the statistics line is 'Statistics: C out of T covered: P%' with T   *)
(* the number of generated rows, C the number of rows stored as covered and *)
(* P the integer part of 100*C/T, 0 when T is 0; 0 <= C <= T, 0 <= P <= 100 *)
(* and P = 100 exactly when T > 0 and every row is covered.  The paragraph  *)
(* is in the output only when 'stats' is set, and it precedes the table.    *)

NodesOf(kind) == { k \in 1..Len(top_node) : top_node[k].node = kind }

C6_Statistics ==
    pc = "done" =>
       LET T == Len(get_items(self.source, self.attributes))
                   + Cardinality(ExpectedExtSources)
           C == Cardinality({ k \in 1..Len(rows.sorted) : StoredCovered(rows.sorted[k]) })
       IN /\ T = Len(rows.sorted)
          /\ 0 <= C /\ C <= T
          /\ Cardinality(NodesOf("table")) = 1
          /\ Cardinality(NodesOf("paragraph")) = (IF self.stats THEN 1 ELSE 0)
          /\ \A k \in NodesOf("paragraph") :
                LET text == top_node[k].text
                    P == text[6]
                IN /\ Len(text) = 7
                   /\ text[1] = "Statistics: " /\ text[2] = C
                   /\ text[3] = " out of " /\ text[4] = T
                   /\ text[5] = " covered: " /\ text[7] = "%"
                   /\ T = 0 => P = 0
                   /\ T > 0 => P * T <= 100 * C /\ 100 * C < (P + 1) * T
                   /\ 0 <= P /\ P <= 100
                   /\ P = 100 <=> (T > 0 /\ \A row \in Range(rows.sorted) : StoredCovered(row))
                   /\ \A j \in NodesOf("table") : k < j

\* statistics requested for three rows of which two are covered: 66%
C6_Witness ==
    /\ pc = "done"
    /\ self.stats
    /\ Len(rows.sorted) = 3
    /\ Len(rows.covered) = 2
    /\ \E k \in NodesOf("paragraph") : top_node[k].text[6] = 66

\* statistics requested for a matrix without any row: 0%
C6_WitnessNoRows ==
    /\ pc = "done"
    /\ self.stats
    /\ rows.sorted = <<>>
    /\ \E k \in NodesOf("paragraph") : top_node[k].text[6] = 0

----------------------------------------------------------------------------
(* C8: a row stored as covered has at least one non-empty target cell and a *)
(* row stored as uncovered has only empty target cells, also when an        *)
(* external relationship of 'type' has no entry in                          *)
(* traceability_external_relationship_to_url.                               *)

SomeTargetCellFilled(row) == \E c \in 1..Len(row.rights) : row.rights[c] # <<>>

C8_UncoveredRowsShowNone ==
    \A row \in Range(rows.sorted) :
        /\ StoredUncovered(row) => ~SomeTargetCellFilled(row)
        /\ SomeTargetCellFilled(row) => StoredCovered(row)

----------------------------------------------------------------------------
(* C7: make_internal_item_ref never links to an undefined item.  For a      *)
(* placeholder without notification item: exactly one warning and a         *)
(* paragraph '<item_id> not defined, broken link' without reference; for a  *)
(* placeholder with a notification item: no warning and a reference to the  *)
(* notification item's document and id; for a defined item: no warning and  *)
(* a reference to the item's own document and id.                           *)

NotificationItemExists == app.notifications # None /\ app.notifications \in DOMAIN collection.items

BrokenLink(r) ==
    /\ Len(r.warned) = 1
    /\ r.warned[1].item = r.item_id
    /\ r.p_node.child = "Text"
    /\ r.p_node.text = r.item_id \o <<" not defined, broken link">>
    /\ r.p_node.refuri = None

Targets(r, id) ==
    /\ r.p_node.refuri = <<self.document, "..", DocName(id), "#">> \o id
    /\ r.p_node.refdocname = DocName(id)

NoTarget(r) == r.p_node.refuri = None /\ r.p_node.refdocname = ""

WarnedCalls == { k \in 1..Len(refs) : refs[k].warned # <<>> }

\* the claim as made: the reference always carries its target
C7_ReferenceAlwaysTargets ==
    /\ Len(warnings) = Cardinality(WarnedCalls)
    /\ \A k \in 1..Len(refs) :
          LET r == refs[k]
              placeholder == collection.items[r.item_id].placeholder
          IN IF placeholder /\ ~NotificationItemExists THEN BrokenLink(r)
             ELSE /\ r.warned = <<>>
                  /\ r.p_node.child = "reference"
                  /\ IF placeholder THEN Targets(r, app.notifications)
                     ELSE Targets(r, r.item_id)

\* the claim with the case of a builder that determines no URI (NoUri): the
\* reference then carries no target at all; a target is always the
\* notification item's or the defined item's own, never an undefined item's
C7_NoLinkToUndefinedItem ==
    /\ Len(warnings) = Cardinality(WarnedCalls)
    /\ \A k \in 1..Len(refs) :
          LET r == refs[k]
              placeholder == collection.items[r.item_id].placeholder
          IN /\ IF placeholder /\ ~NotificationItemExists THEN BrokenLink(r)
                ELSE /\ r.warned = <<>>
                     /\ r.p_node.child = "reference"
                     /\ IF app.no_uri THEN NoTarget(r)
                        ELSE IF placeholder THEN Targets(r, app.notifications)
                        ELSE Targets(r, r.item_id)
             /\ \A id \in DOMAIN collection.items :
                   collection.items[id].placeholder =>
                      ~(r.p_node.child = "reference" /\ Targets(r, id))

\* a placeholder referenced while a notification item exists, then a defined
\* item, under a builder that determines the URIs
C7_Witness ==
    /\ pc = "ref"
    /\ ~app.no_uri
    /\ NotificationItemExists
    /\ Len(refs) = 2
    /\ collection.items[refs[1].item_id].placeholder
    /\ Targets(refs[1], N1)
    /\ ~collection.items[refs[2].item_id].placeholder
    /\ Targets(refs[2], refs[2].item_id)

====
